---- MODULE Spec2Model ----
(***************************************************************************)
(* State-machine model of the NSW property-sales pipeline:                 *)
(*   - extract_original.py : recursive, depth-bounded archive extraction   *)
(*   - group_by_locality.py: legacy-record conversion and partitioning of  *)
(*                           sale records by locality                      *)
(*                                                                         *)
(* Representation of strings.  A file name is the sequence of its          *)
(* dot-separated parts ("b.tar.gz" is <<"b","tar","gz">>, ".tar.gz" is     *)
(* <<"","tar","gz">>); a path is the sequence of its names.  A text line   *)
(* is a sequence of tokens: one token is either a single character         *)
(* (";", " ", "/", ".", "-", "_", a digit, the record marker "B") or a run *)
(* of letters that no modelled operation looks inside.                     *)
(***************************************************************************)
EXTENDS Integers, Sequences, FiniteSets, TLC

VARIABLES
    files,                   \* file system: path -> content of each regular file
    dirs,                    \* file system: set of directories
    max_depth,               \* the max_depth argument of extract_single_archive
    mpc,                     \* position of main(): "start" | "loop" | "done" | "crashed"
    archive_files,           \* main: sorted list returned by get_all_archive_files
    successful_extractions,  \* main: counter
    failed_extractions,      \* main: counter
    pbar,                    \* main: iterations of the loop finished (pbar.update)
    stack,                   \* call stack of extract_single_archive activations
    log,                     \* history of what the run did (calls, decodes, unlinks, returns)
    extracted_files,         \* the files under the extracted folder, name and lines of each
    all_dat_files,           \* process_dat_files: the .DAT files glob returned
    lpc,                     \* position of process_dat_files: "start" | "read" | "write" | "done"
    all_files_to_process,    \* process_dat_files: regular files, then archive files
    file_no,                 \* process_dat_files: the file being read
    line_no,                 \* process_dat_files: the next line of that file
    locality_records,        \* process_dat_files: locality -> list of lines
    locality_order,          \* the keys of locality_records in insertion order
    locality_no,             \* process_dat_files: the bucket being written
    output_files,            \* the localities folder: file name -> lines written
    processed_files,         \* process_dat_files: counter
    error_files,             \* process_dat_files: counter
    total_records,           \* process_dat_files: counter
    accepted,                \* history: the lines appended, each with its key and its file
    write_errors,            \* history: the output files whose write raised
    cpc,                     \* position of a single call of convert_archive_to_standard_format
    line,                    \* that call's argument
    converted_line           \* that call's result: <<>> for None, <<l>> for the line l

evars == <<files, dirs, max_depth, mpc, archive_files,
           successful_extractions, failed_extractions, pbar, stack, log>>

lvars == <<extracted_files, all_dat_files, lpc, all_files_to_process, file_no, line_no,
           locality_records, locality_order, locality_no, output_files,
           processed_files, error_files, total_records, accepted, write_errors>>

cvars == <<cpc, line, converted_line>>

vars == <<evars, lvars, cvars>>

\* process_dat_files is not running
LocalityIdle ==
    /\ lpc = "idle"
    /\ extracted_files = {}
    /\ all_dat_files = <<>>
    /\ all_files_to_process = <<>>
    /\ file_no = 0
    /\ line_no = 0
    /\ locality_records = <<>>
    /\ locality_order = <<>>
    /\ locality_no = 0
    /\ output_files = <<>>
    /\ processed_files = 0
    /\ error_files = 0
    /\ total_records = 0
    /\ accepted = <<>>
    /\ write_errors = {}

\* no single conversion is under way
ConvertIdle ==
    /\ cpc = "idle"
    /\ line = <<>>
    /\ converted_line = <<>>

(***************************************************************************)
(* Sequences, names and paths                                              *)
(***************************************************************************)
Last(s) == s[Len(s)]

Front(s) == SubSeq(s, 1, Len(s) - 1)

IsPrefix(p, q) == Len(p) <= Len(q) /\ SubSeq(q, 1, Len(p)) = p

Range(s) == {s[i] : i \in DOMAIN s}

\* str.lower() on the name parts that occur in the modelled trees
Lower(part) ==
    CASE part = "ZIP" -> "zip"
      [] part = "GZ"  -> "gz"
      [] part = "TAR" -> "tar"
      [] part = "DAT" -> "dat"
      [] OTHER        -> part

\* pathlib: name has a suffix iff its last dot is neither first nor last character
HasSuffix(name) ==
    /\ Len(name) >= 2
    /\ Last(name) # ""
    /\ ~(Len(name) = 2 /\ name[1] = "")

\* PurePath.suffix, without its leading dot ("" when there is none)
Suffix(name) == IF HasSuffix(name) THEN Last(name) ELSE ""

\* PurePath.stem
Stem(name) == IF HasSuffix(name) THEN Front(name) ELSE name

RECURSIVE LStripDots(_)
\* str.lstrip('.') on a name: its leading empty parts go
LStripDots(name) ==
    IF Len(name) >= 2 /\ name[1] = "" THEN LStripDots(Tail(name)) ELSE name

\* PurePath.suffixes, each without its leading dot
Suffixes(name) ==
    IF Last(name) = "" THEN <<>> ELSE Tail(LStripDots(name))

\* ''.join(path.suffixes[-2:]).lower()
LastTwoSuffixes(name) ==
    LET s == Suffixes(name)
        t == IF Len(s) > 2 THEN SubSeq(s, Len(s) - 1, Len(s)) ELSE s
    IN  [i \in DOMAIN t |-> Lower(t[i])]

\* str.endswith('.tar') / str.endswith('.tar.gz') on a dotted name (case-sensitive)
EndsWithDotTar(name) == Len(name) >= 2 /\ Last(name) = "tar"

EndsWithDotTarGz(name) ==
    Len(name) >= 3 /\ name[Len(name) - 1] = "tar" /\ Last(name) = "gz"

RECURSIVE ReplaceTarGz(_)
\* name.replace('.tar.gz', ''): every ".tar.gz" after the first part is cut out
ReplaceTarGz(name) ==
    IF Len(name) < 3 THEN name
    ELSE IF name[2] = "tar" /\ name[3] = "gz"
         THEN ReplaceTarGz(<<name[1]>> \o SubSeq(name, 4, Len(name)))
         ELSE LET rest == ReplaceTarGz(Tail(name))
              IN  <<name[1]>> \o rest

Parent(p) == Front(p)

Basename(p) == Last(p)

\* Path / name; joining the empty name gives the path itself
Join(p, name) == IF name = <<"">> THEN p ELSE Append(p, name)

Under(dir, p) == IsPrefix(dir, p) /\ Len(p) > Len(dir)

(***************************************************************************)
(* Ordering of paths: sorted() on Path objects compares the tuples of path *)
(* components, each component as a string                                  *)
(***************************************************************************)
\* the name parts of the modelled trees in ascending code-point order
PartOrder == <<"", "DAT", "a", "b", "bad", "d", "extracted", "g", "gz", "n",
               "notes", "ok", "original", "rar", "sub", "tar", "txt", "x",
               "y", "zip">>

PartRank(part) == CHOOSE i \in DOMAIN PartOrder : PartOrder[i] = part

PartLess(a, b) == PartRank(a) < PartRank(b)

RECURSIVE NameLess(_, _)
\* string order of two names, part by part: a part that ends comes before one
\* that goes on, since "." sorts before every letter and digit
NameLess(m, n) ==
    IF m = <<>> THEN n # <<>>
    ELSE IF n = <<>> THEN FALSE
    ELSE IF m[1] = n[1] THEN NameLess(Tail(m), Tail(n))
    ELSE PartLess(m[1], n[1])

RECURSIVE PathLess(_, _)
\* PurePath.__lt__: the component tuples compared lexicographically
PathLess(p, q) ==
    IF p = <<>> THEN q # <<>>
    ELSE IF q = <<>> THEN FALSE
    ELSE IF p[1] = q[1] THEN PathLess(Tail(p), Tail(q))
    ELSE NameLess(p[1], q[1])

RECURSIVE SortPaths(_)
\* sorted(archive_files)
SortPaths(S) ==
    IF S = {} THEN <<>>
    ELSE LET least == CHOOSE p \in S : \A q \in S \ {p} : PathLess(p, q)
         IN  <<least>> \o SortPaths(S \ {least})

(***************************************************************************)
(* ArchiveScanner: get_all_archive_files and find_nested_archives          *)
(***************************************************************************)
archive_extensions == {"zip", "rar", "7z", "tar", "gz", "tgz", "tbz2", "txz"}

CompoundExtensions == {<<"tar", "gz">>, <<"tar", "bz2">>, <<"tar", "xz">>}

\* the test both scanners apply to each file of the walk
IsArchiveName(name) ==
    \/ Lower(Suffix(name)) \in archive_extensions
    \/ /\ Len(Suffixes(name)) > 1
       /\ LastTwoSuffixes(name) \in CompoundExtensions

ArchivesUnder(fs, directory) ==
    {p \in DOMAIN fs : Under(directory, p) /\ IsArchiveName(Basename(p))}

get_all_archive_files(fs, original_path) ==
    SortPaths(ArchivesUnder(fs, original_path))

\* os.walk is top-down: the files of a directory come before those of its
\* sub-directories, and each sub-directory's tree is walked as a whole; within
\* one directory the listing order is the file system's
IsWalkOrder(s) ==
    /\ \A i, j \in DOMAIN s :
         Under(Parent(s[i]), Parent(s[j])) => i < j
    /\ \A i, j, k \in DOMAIN s :
         (i < j /\ j < k) =>
            \A n \in 1..Len(Parent(s[i])) :
               (IsPrefix(SubSeq(s[i], 1, n), s[k]) => IsPrefix(SubSeq(s[i], 1, n), s[j]))

WalkOrders(S) ==
    {s \in [1..Cardinality(S) -> S] :
        (\A i, j \in DOMAIN s : i # j => s[i] # s[j]) /\ IsWalkOrder(s)}

\* the lists find_nested_archives(directory) can return
find_nested_archives(fs, directory) == WalkOrders(ArchivesUnder(fs, directory))

(***************************************************************************)
(* File contents.  An archive is the set of its members (relative path and *)
(* content); a file that is no archive, or a damaged one, is "data".       *)
(***************************************************************************)
Blob(kind, entries) == [kind |-> kind, entries |-> entries]

Member(rel, blob) == [rel |-> rel, blob |-> blob]

Data == Blob("data", {})

\* what open(output_file, 'wb') leaves when nothing was written
Empty == Blob("empty", {})

Leaf == Blob("zip", {Member(<<<<"d", "DAT">>>>, Data)})

(***************************************************************************)
(* File-system operations                                                  *)
(***************************************************************************)
Prefixes(p) == {SubSeq(p, 1, n) : n \in 1..Len(p)}

\* Path.mkdir(parents=True, exist_ok=True) raises when the path or one of its
\* ancestors is a regular file
MkdirFails(fs, path) == \E q \in Prefixes(path) : q \in DOMAIN fs

Mkdir(ds, path) == ds \cup Prefixes(path)

\* the files an archive's members become under extract_to
Targets(blob, extract_to) ==
    {Member(extract_to \o e.rel, e.blob) : e \in blob.entries}

\* a member cannot be written over a directory, nor below a regular file
WriteFails(fs, ds, targets) ==
    \E t \in targets :
        \/ t.rel \in ds
        \/ \E q \in Prefixes(Parent(t.rel)) : q \in DOMAIN fs

WriteAll(fs, targets) ==
    LET new == {t.rel : t \in targets}
    IN  [p \in DOMAIN fs \cup new |->
            IF p \in new THEN (CHOOSE t \in targets : t.rel = p).blob ELSE fs[p]]

MkdirsFor(ds, targets) ==
    ds \cup UNION {Prefixes(Parent(t.rel)) : t \in targets}

Remove(fs, path) == [p \in DOMAIN fs \ {path} |-> fs[p]]

(***************************************************************************)
(* FormatDecoder registry.  A decoder's outcome is [ok, files, dirs]: an   *)
(* archive that is missing or is not of the decoder's format raises; an    *)
(* extraction that hits a member it cannot write raises as a whole.        *)
(***************************************************************************)
Outcome(ok, fs, ds) == [ok |-> ok, files |-> fs, dirs |-> ds]

\* zipfile / rarfile / py7zr / tarfile extractall(extract_to)
ExtractAll(fs, ds, archive_path, extract_to, kind) ==
    IF archive_path \notin DOMAIN fs \/ fs[archive_path].kind # kind
    THEN Outcome(FALSE, fs, ds)
    ELSE LET targets == Targets(fs[archive_path], extract_to)
         IN  IF WriteFails(fs, ds, targets)
             THEN Outcome(FALSE, fs, ds)
             ELSE Outcome(TRUE, WriteAll(fs, targets), MkdirsFor(ds, targets))

extract_zip_file(fs, ds, zip_path, extract_to) ==
    ExtractAll(fs, ds, zip_path, extract_to, "zip")

extract_7z_file(fs, ds, archive_path, extract_to) ==
    ExtractAll(fs, ds, archive_path, extract_to, "7z")

extract_rar_file(fs, ds, rar_path, extract_to) ==
    ExtractAll(fs, ds, rar_path, extract_to, "rar")

extract_tar_file(fs, ds, tar_path, extract_to) ==
    ExtractAll(fs, ds, tar_path, extract_to, "tar")

\* gzip.open(gz_path) opens the archive, open(output_file, 'wb') creates the
\* output, and only the copy reads the stream: a file that is no gzip stream
\* leaves an empty output file behind
extract_gz_file(fs, ds, gz_path, extract_to) ==
    LET output_file == Append(extract_to, Stem(Basename(gz_path)))
        payload(b)  == (CHOOSE e \in b.entries : TRUE).blob
        out(b)      == {Member(output_file, b)}
    IN  IF gz_path \notin DOMAIN fs \/ output_file \in ds
        THEN Outcome(FALSE, fs, ds)
        ELSE IF fs[gz_path].kind # "gz"
             THEN Outcome(FALSE, WriteAll(fs, out(Empty)), ds)
             ELSE Outcome(TRUE, WriteAll(fs, out(payload(fs[gz_path]))), ds)

\* the name of the destination folder (extract_single_archive, first lines)
ArchiveName(archive_path) ==
    LET name == Basename(archive_path)
    IN  IF Lower(Suffix(name)) = "gz" /\ EndsWithDotTar(Stem(name))
        THEN ReplaceTarGz(name)
        ELSE Stem(name)

\* the if/elif chain of extract_single_archive; "unsupported" when none matches
Decoder(archive_path) ==
    LET name     == Basename(archive_path)
        suffix   == Lower(Suffix(name))
        suffixes == LastTwoSuffixes(name)
    IN  IF suffix = "zip" THEN "zip"
        ELSE IF suffix = "rar" THEN "rar"
        ELSE IF suffix = "7z" THEN "7z"
        ELSE IF \/ suffixes \in {<<"tar", "gz">>, <<"tar", "bz2">>, <<"tar", "xz">>}
                \/ suffix \in {"tar", "tgz", "tbz2", "txz"} THEN "tar"
        ELSE IF suffix = "gz" /\ ~EndsWithDotTarGz(name) THEN "gz"
        ELSE "unsupported"

Decode(fs, ds, archive_path, extract_to) ==
    LET d == Decoder(archive_path)
    IN  CASE d = "zip" -> extract_zip_file(fs, ds, archive_path, extract_to)
          [] d = "rar" -> extract_rar_file(fs, ds, archive_path, extract_to)
          [] d = "7z"  -> extract_7z_file(fs, ds, archive_path, extract_to)
          [] d = "tar" -> extract_tar_file(fs, ds, archive_path, extract_to)
          [] OTHER     -> extract_gz_file(fs, ds, archive_path, extract_to)

(***************************************************************************)
(* The trees a run can start from                                          *)
(***************************************************************************)
\* how many top-level archives the original folder holds at most
MaxTop == 2

\* how many archives the deepest modelled archive holds inside one another
MaxNesting == 3

\* max_depth=3 in the signature of extract_single_archive
DefaultMaxDepth == 3

\* the largest max_depth argument tried when it is passed explicitly
MaxDepthArg == 3

OriginalPath == <<<<"original">>>>

ExtractedPath == <<<<"extracted">>>>

RECURSIVE Chain(_)
\* an archive holding n.zip, which holds n.zip, ... n levels deep
Chain(n) ==
    IF n = 0 THEN Leaf
    ELSE Blob("zip", {Member(<<<<"n", "zip">>>>, Chain(n - 1))})

\* a member "a" beside a nested archive "a.zip", whose folder would be "a"
Clash ==
    Blob("zip", {Member(<<<<"a">>>>, Data),
                 Member(<<<<"a", "zip">>>>, Leaf),
                 Member(<<<<"ok", "zip">>>>, Leaf)})

\* a nested archive x.zip beside a folder x that holds another archive
Overlap ==
    Blob("zip", {Member(<<<<"x", "zip">>>>, Leaf),
                 Member(<<<<"x">>, <<"y", "zip">>>>, Leaf)})

\* nested archives that fail each in its own way, and one that extracts
Mixed ==
    Blob("zip", {Member(<<<<"bad", "zip">>>>, Data),
                 Member(<<<<"g", "gz">>>>, Blob("gz", {Member(<<>>, Data)})),
                 Member(<<<<"", "tar", "gz">>>>, Blob("tar", {}))})

TarLeaf == Blob("tar", {Member(<<<<"d", "DAT">>>>, Data)})

\* a tar archive with a member "b", the folder name of b.tar.gz
TarB == Blob("tar", {Member(<<<<"b">>>>, Data)})

\* a nested archive named ".tar.gz.tar.gz", whose folder name is empty
InPlace ==
    Blob("zip", {Member(<<<<"", "tar", "gz", "tar", "gz">>>>, TarLeaf)})

RarLeaf == Blob("rar", {Member(<<<<"d", "DAT">>>>, Data)})

\* the candidate files of the original folder and the contents each may have
Pool ==
    {[path |-> OriginalPath \o <<<<"a", "zip">>>>,
      blobs |-> {Leaf, Data, Chain(MaxNesting), Clash, Overlap, Mixed, InPlace}],
     [path |-> OriginalPath \o <<<<"a", "rar">>>>, blobs |-> {RarLeaf}],
     [path |-> OriginalPath \o <<<<"sub">>, <<"a", "zip">>>>, blobs |-> {Leaf}],
     [path |-> OriginalPath \o <<<<"b", "tar", "gz">>>>, blobs |-> {TarLeaf, Data}],
     [path |-> OriginalPath \o <<<<"", "tar", "gz">>>>, blobs |-> {TarLeaf}],
     [path |-> OriginalPath \o <<<<"", "tar", "gz", "tar", "gz">>>>, blobs |-> {TarB}]}

PoolPaths == {c.path : c \in Pool}

BlobsOf(path) == (CHOOSE c \in Pool : c.path = path).blobs

NotesFile == OriginalPath \o <<<<"notes", "txt">>>>

\* a file a previous run left in the extraction folder
StaleFile == ExtractedPath \o <<<<"a">>>>

\* the file trees: an original folder with at most MaxTop archives and a file
\* that is no archive, beside an extraction folder that is absent or stale
InitialTrees ==
    {f \in UNION {[S \cup {NotesFile} -> UNION {c.blobs : c \in Pool} \cup {Data}] :
                     S \in {T \in SUBSET PoolPaths : Cardinality(T) <= MaxTop}} :
        /\ f[NotesFile] = Data
        /\ \A p \in DOMAIN f \ {NotesFile} : f[p] \in BlobsOf(p)}

DirsOf(fs) == UNION {Prefixes(Parent(p)) : p \in DOMAIN fs}

(***************************************************************************)
(* The run: main() of extract_original.py and the activations of           *)
(* extract_single_archive                                                  *)
(***************************************************************************)
NoFiles == [p \in {} |-> Data]

WithStale(fs) == [p \in DOMAIN fs \cup {StaleFile} |-> IF p = StaleFile THEN Data ELSE fs[p]]

Event(ev, path, depth, to, val) ==
    [ev |-> ev, path |-> path, depth |-> depth, to |-> to, val |-> val,
     decoded |-> FALSE, listed |-> 0, tried |-> 0]

Frame(archive_path, extracted_path, current_depth) ==
    [archive_path |-> archive_path, extracted_path |-> extracted_path,
     current_depth |-> current_depth, pc |-> "entry", extract_to |-> <<>>,
     nested_archives |-> <<>>, k |-> 1, decoded |-> FALSE]

Top == stack[Len(stack)]

SetTop(f) == [stack EXCEPT ![Len(stack)] = f]

InitCommon ==
    /\ \/ /\ files = NoFiles
          /\ dirs = {}
       \/ \E t \in InitialTrees, stale \in BOOLEAN :
             /\ files = (IF stale THEN WithStale(t) ELSE t)
             /\ dirs = DirsOf(files)
    /\ mpc = "start"
    /\ archive_files = <<>>
    /\ successful_extractions = 0
    /\ failed_extractions = 0
    /\ pbar = 0
    /\ stack = <<>>
    /\ log = <<>>
    /\ LocalityIdle
    /\ ConvertIdle

\* main() calls extract_single_archive(archive_file, extracted_path)
Init == InitCommon /\ max_depth = DefaultMaxDepth

\* extract_single_archive called with max_depth given
InitDepth == InitCommon /\ max_depth \in 0..MaxDepthArg

\* main(): the original folder is looked for, the extraction folder is
\* cleared (shutil.rmtree, mkdir) and the original folder is scanned
ClearAndScan ==
    /\ mpc = "start"
    /\ IF OriginalPath \notin dirs
       THEN /\ mpc' = "done"
            /\ UNCHANGED <<files, dirs, archive_files>>
       ELSE LET kept   == {p \in DOMAIN files : ~Under(ExtractedPath, p)}
                fs     == [p \in kept |-> files[p]]
                found  == get_all_archive_files(fs, OriginalPath)
            IN  /\ files' = fs
                /\ dirs' = {d \in dirs : ~IsPrefix(ExtractedPath, d)} \cup {ExtractedPath}
                /\ archive_files' = found
                /\ mpc' = IF found = <<>> THEN "done" ELSE "loop"
    /\ UNCHANGED <<max_depth, successful_extractions, failed_extractions, pbar, stack, log>>
    /\ UNCHANGED <<lvars, cvars>>

\* main(): the loop body calls extract_single_archive for the next archive
MainCall ==
    /\ mpc = "loop"
    /\ stack = <<>>
    /\ pbar < Len(archive_files)
    /\ LET archive_file == archive_files[pbar + 1]
       IN  /\ stack' = <<Frame(archive_file, ExtractedPath, 0)>>
           /\ log' = Append(log, Event("call", archive_file, 0, <<>>, ""))
    /\ UNCHANGED <<files, dirs, max_depth, mpc, archive_files,
                   successful_extractions, failed_extractions, pbar>>
    /\ UNCHANGED <<lvars, cvars>>

\* main(): the loop is over, the summary is printed
MainDone ==
    /\ mpc = "loop"
    /\ stack = <<>>
    /\ pbar = Len(archive_files)
    /\ mpc' = "done"
    /\ UNCHANGED <<files, dirs, max_depth, archive_files, successful_extractions,
                   failed_extractions, pbar, stack, log>>
    /\ UNCHANGED <<lvars, cvars>>

\* every False counted, whichever call returned it
FailedAfterAnyCall(val, top_level) ==
    failed_extractions + (IF val = "False" THEN 1 ELSE 0)

\* main's loop: a False from extract_single_archive(archive_file, ...) adds
\* one to failed_extractions; what a nested call returns is not counted
FailedAfter(val, top_level) ==
    failed_extractions + (IF top_level /\ val = "False" THEN 1 ELSE 0)

\* main's loop: a True adds one to successful_extractions
SuccessfulAfter(val, top_level) ==
    successful_extractions + (IF top_level /\ val = "True" THEN 1 ELSE 0)

\* The activation on top of the stack ends with val: "True" or "False"
\* returned, or "raise" for an exception that leaves it.  Its caller is main's
\* loop (which counts the outcome; an exception ends main) or the activation
\* below (which goes on to the unlink, to the next nested archive, or to its
\* except clause).
Return(val, events) ==
    LET f      == Top
        rest   == Front(stack)
        caller == rest[Len(rest)]
        ret    == [Event("return", f.archive_path, f.current_depth, f.extract_to, val)
                      EXCEPT !.decoded = f.decoded,
                             !.listed = Len(f.nested_archives),
                             !.tried = f.k - 1]
    IN  /\ log' = log \o events \o <<ret>>
        /\ successful_extractions' = SuccessfulAfter(val, rest = <<>>)
        /\ failed_extractions' = FailedAfter(val, rest = <<>>)
        /\ IF rest = <<>>
           THEN /\ stack' = <<>>
                /\ pbar' = IF val = "raise" THEN pbar ELSE pbar + 1
                /\ mpc' = IF val = "raise" THEN "crashed" ELSE mpc
           ELSE /\ stack' = [rest EXCEPT ![Len(rest)] =
                      IF val = "True" THEN [caller EXCEPT !.pc = "unlink"]
                      ELSE IF val = "False"
                           THEN [caller EXCEPT !.pc = "nested", !.k = caller.k + 1]
                           ELSE [caller EXCEPT !.pc = "except"]]
                /\ UNCHANGED <<pbar, mpc>>

\* the depth test taken one level too late
DepthExceededStrict(current_depth, bound) == current_depth > bound

\* "if current_depth >= max_depth": the archive is not extracted
DepthExceeded(current_depth, bound) == current_depth >= bound

\* the caller's own extraction folder handed down instead
NestedExtractedPathOfCaller(f, nested_archive) == f.extracted_path

\* the extracted_path the loop over nested_archives passes on: nested_archive.parent
NestedExtractedPath(f, nested_archive) == Parent(nested_archive)

\* extract_single_archive: the depth check, the destination folder's name and
\* its mkdir (which is outside the try block)
Enter ==
    /\ stack # <<>>
    /\ Top.pc = "entry"
    /\ LET f          == Top
           extract_to == Join(f.extracted_path, ArchiveName(f.archive_path))
       IN  IF DepthExceeded(f.current_depth, max_depth)
           THEN /\ Return("False", <<Event("reject", f.archive_path, f.current_depth, <<>>, "")>>)
                /\ UNCHANGED <<files, dirs>>
           ELSE IF MkdirFails(files, extract_to)
           THEN /\ Return("raise", <<Event("mkdir_failed", f.archive_path, f.current_depth,
                                           extract_to, "")>>)
                /\ UNCHANGED <<files, dirs>>
           ELSE /\ dirs' = Mkdir(dirs, extract_to)
                /\ stack' = SetTop([f EXCEPT !.pc = "extract", !.extract_to = extract_to])
                /\ log' = Append(log, Event("mkdir", f.archive_path, f.current_depth,
                                            extract_to, ""))
                /\ UNCHANGED <<files, mpc, successful_extractions, failed_extractions, pbar>>
    /\ UNCHANGED <<max_depth, archive_files>>
    /\ UNCHANGED <<lvars, cvars>>

\* the decoder's exception let through
DecodeErrorRaised == "raise"

\* "except Exception as e: ... return False" around the decoder
DecodeError == "False"

\* extract_single_archive: the decoder is chosen and run, and the destination
\* folder is scanned for nested archives
Extract ==
    /\ stack # <<>>
    /\ Top.pc = "extract"
    /\ LET f == Top
           r == Decode(files, dirs, f.archive_path, f.extract_to)
       IN  IF Decoder(f.archive_path) = "unsupported"
           THEN /\ Return("False", <<Event("unsupported", f.archive_path, f.current_depth,
                                           f.extract_to, "")>>)
                /\ UNCHANGED <<files, dirs>>
           ELSE IF ~r.ok
           THEN /\ Return(DecodeError, <<Event("decode_failed", f.archive_path, f.current_depth,
                                           f.extract_to, "")>>)
                /\ files' = r.files
                /\ dirs' = r.dirs
           ELSE /\ files' = r.files
                /\ dirs' = r.dirs
                /\ \E nested \in find_nested_archives(r.files, f.extract_to) :
                      stack' = SetTop([f EXCEPT !.pc = "nested", !.decoded = TRUE,
                                                !.nested_archives = nested])
                /\ log' = Append(log, Event("decode", f.archive_path, f.current_depth,
                                            f.extract_to, ""))
                /\ UNCHANGED <<mpc, successful_extractions, failed_extractions, pbar>>
    /\ UNCHANGED <<max_depth, archive_files>>
    /\ UNCHANGED <<lvars, cvars>>

\* extract_single_archive: the loop over nested_archives calls itself for the
\* next one, with the nested archive's parent as extraction folder
NestedCall ==
    /\ stack # <<>>
    /\ Top.pc = "nested"
    /\ Top.k <= Len(Top.nested_archives)
    /\ LET f              == Top
           nested_archive == f.nested_archives[f.k]
       IN  /\ stack' = Append(SetTop([f EXCEPT !.pc = "await"]),
                              Frame(nested_archive, NestedExtractedPath(f, nested_archive),
                                    f.current_depth + 1))
           /\ log' = Append(log, Event("call", nested_archive, f.current_depth + 1, <<>>, ""))
    /\ UNCHANGED <<files, dirs, max_depth, mpc, archive_files,
                   successful_extractions, failed_extractions, pbar>>
    /\ UNCHANGED <<lvars, cvars>>

\* extract_single_archive: the nested archive extracted, its file is unlinked;
\* a failing unlink is swallowed by the bare except
Unlink ==
    /\ stack # <<>>
    /\ Top.pc = "unlink"
    /\ LET f              == Top
           nested_archive == f.nested_archives[f.k]
       IN  /\ \E ok \in BOOLEAN :
                 IF ok /\ nested_archive \in DOMAIN files
                 THEN /\ files' = Remove(files, nested_archive)
                      /\ log' = Append(log, Event("unlink", nested_archive,
                                                  f.current_depth + 1, <<>>, ""))
                 ELSE /\ files' = files
                      /\ log' = Append(log, Event("unlink_failed", nested_archive,
                                                  f.current_depth + 1, <<>>, ""))
           /\ stack' = SetTop([f EXCEPT !.pc = "nested", !.k = f.k + 1])
    /\ UNCHANGED <<dirs, max_depth, mpc, archive_files,
                   successful_extractions, failed_extractions, pbar>>
    /\ UNCHANGED <<lvars, cvars>>

\* extract_single_archive: every nested archive dealt with, return True
NestedDone ==
    /\ stack # <<>>
    /\ Top.pc = "nested"
    /\ Top.k > Len(Top.nested_archives)
    /\ Return("True", <<>>)
    /\ UNCHANGED <<files, dirs, max_depth, archive_files>>
    /\ UNCHANGED <<lvars, cvars>>

\* extract_single_archive: "except Exception" catches what a nested call
\* raised, and returns False
Except ==
    /\ stack # <<>>
    /\ Top.pc = "except"
    /\ Return("False", <<>>)
    /\ UNCHANGED <<files, dirs, max_depth, archive_files>>
    /\ UNCHANGED <<lvars, cvars>>

Next ==
    \/ ClearAndScan
    \/ MainCall
    \/ MainDone
    \/ Enter
    \/ Extract
    \/ NestedCall
    \/ Unlink
    \/ NestedDone
    \/ Except

Spec == Init /\ [][Next]_vars

SpecDepth == InitDepth /\ [][Next]_vars

(***************************************************************************)
(* Properties of the extraction run                                        *)
(***************************************************************************)
EventsOf(evs) == {i \in DOMAIN log : log[i].ev \in evs}

IsTopCall(e) == e.ev = "call" /\ e.depth = 0

\* the archives main's loop has called extract_single_archive for, in order
Attempted ==
    LET calls == SelectSeq(log, IsTopCall)
    IN  [i \in DOMAIN calls |-> calls[i].path]

TopReturns(val) ==
    {i \in EventsOf({"return"}) : log[i].depth = 0 /\ log[i].val = val}

\* the folder an archive's members go to, spelt out on the name's parts
FolderOf(extracted_path, archive_path) ==
    LET name == Basename(archive_path)
        n    == Len(name)
    IN  IF n >= 3 /\ name[n - 1] = "tar" /\ Lower(name[n]) = "gz"
        THEN Join(extracted_path, ReplaceTarGz(name))
        ELSE IF HasSuffix(name) THEN Append(extracted_path, Front(name))
        ELSE Append(extracted_path, name)

C1_DepthBoundState ==
    /\ \A i \in EventsOf({"mkdir", "mkdir_failed", "decode", "decode_failed", "unsupported"}) :
          log[i].depth < max_depth
    /\ \A i \in EventsOf({"call"}) :
          (log[i].depth >= max_depth /\ i < Len(log)) =>
             /\ log[i + 1].ev = "reject"
             /\ log[i + 2].ev = "return"
             /\ log[i + 2].val = "False"
             /\ log[i + 2].path = log[i].path
    /\ \A j \in DOMAIN stack :
          stack[j].current_depth = j - 1 /\ stack[j].current_depth <= max_depth
    /\ mpc = "crashed" =>
          /\ log[Len(log)].val = "raise"
          /\ log[Len(log) - 1].ev = "mkdir_failed"
          /\ log[Len(log) - 1].depth < max_depth
    /\ mpc \in {"done", "crashed"} \/ ENABLED Next

C1_RejectStep ==
    stack # <<>> /\ Top.pc = "entry" /\ Top.current_depth >= max_depth

\* C1: no decoder runs and no destination folder is made for an archive at
\* current_depth >= max_depth: such a call returns False at once, leaving the
\* file system as it is and raising nothing; the activations never nest deeper
\* than max_depth, and the run goes on until main ends (by an exception only
\* when the mkdir of an archive within the bound failed).
C1_DepthBound ==
    /\ []C1_DepthBoundState
    /\ [][C1_RejectStep => (files' = files /\ dirs' = dirs /\ Len(stack') < Len(stack))]_vars

\* C1 witness: under the bound 3 a run is done, and the archive it met at
\* depth 3 is still an un-extracted file with no folder of its own
C1_Witness ==
    /\ max_depth = 3
    /\ mpc = "done"
    /\ \E i \in EventsOf({"reject"}) :
          /\ log[i].depth = 3
          /\ log[i].path \in DOMAIN files
          /\ FolderOf(Parent(log[i].path), log[i].path) \notin dirs

C3_NestedFailureIsolated ==
    \A i \in EventsOf({"return"}) :
        log[i].decoded => (log[i].val = "True" /\ log[i].tried = log[i].listed)

C5_DestinationState ==
    /\ \A j \in DOMAIN stack :
          j > 1 => stack[j].extracted_path = Parent(stack[j].archive_path)
    /\ \A i \in EventsOf({"decode"}) :
          log[i].depth > 0 =>
             /\ log[i].to = FolderOf(Parent(log[i].path), log[i].path)
             /\ Basename(log[i].path) # <<"", "tar", "gz", "tar", "gz">> =>
                   /\ Under(Parent(log[i].path), log[i].to)
                   /\ Basename(log[i].to) = Stem(ReplaceTarGz(Basename(log[i].path)))

C5_Written == {p \in DOMAIN files' : p \notin DOMAIN files \/ files'[p] # files[p]}

C6_CleanupOrdering ==
    /\ \A i \in EventsOf({"unlink"}) :
          /\ log[i - 1].ev = "return"
          /\ log[i - 1].val = "True"
          /\ log[i - 1].path = log[i].path
    /\ mpc = "done" =>
          \A i \in EventsOf({"return"}) :
             (log[i].depth > 0 /\ log[i].val = "False") => log[i].path \in DOMAIN files
    /\ \A p \in Range(archive_files) : p \in DOMAIN files
    /\ \A i \in EventsOf({"unlink_failed"}) :
          i < Len(log) =>
             \/ log[i + 1].ev = "call" /\ log[i + 1].depth = log[i].depth
             \/ log[i + 1].ev = "return" /\ log[i + 1].val = "True"

(***************************************************************************)
(* Text: lines and fields as sequences of tokens                           *)
(***************************************************************************)
Whitespace == {" ", "\t", "\r", "\n"}

RECURSIVE LStrip(_)
LStrip(s) == IF s # <<>> /\ s[1] \in Whitespace THEN LStrip(Tail(s)) ELSE s

RECURSIVE RStrip(_)
RStrip(s) == IF s # <<>> /\ Last(s) \in Whitespace THEN RStrip(Front(s)) ELSE s

\* str.strip()
Strip(s) == RStrip(LStrip(s))

RECURSIVE SplitOn(_, _)
\* str.split(sep): the pieces between the separators, empty ones included
SplitOn(s, sep) ==
    IF \A i \in DOMAIN s : s[i] # sep THEN <<s>>
    ELSE LET i == CHOOSE j \in DOMAIN s : s[j] = sep /\ \A h \in 1..(j - 1) : s[h] # sep
         IN  <<SubSeq(s, 1, i - 1)>> \o SplitOn(SubSeq(s, i + 1, Len(s)), sep)

RECURSIVE JoinWith(_, _)
\* sep.join(fields)
JoinWith(fields, sep) ==
    IF fields = <<>> THEN <<>>
    ELSE IF Len(fields) = 1 THEN fields[1]
    ELSE fields[1] \o <<sep>> \o JoinWith(Tail(fields), sep)

\* line.startswith('B;')
StartsWithB(s) == Len(s) >= 2 /\ s[1] = "B" /\ s[2] = ";"

(***************************************************************************)
(* convert_archive_date: DD/MM/YYYY to CCYYMMDD                            *)
(***************************************************************************)
Digits == <<"0", "1", "2", "3", "4", "5", "6", "7", "8", "9">>

IsDigit(c) == \E i \in DOMAIN Digits : Digits[i] = c

DigitValue(c) == (CHOOSE i \in DOMAIN Digits : Digits[i] = c) - 1

RECURSIVE Number(_)
\* int() of a run of digits
Number(s) == IF s = <<>> THEN 0 ELSE 10 * Number(Front(s)) + DigitValue(Last(s))

\* what strptime's %d, %m and %Y accept: 1 or 2 digits from 1 to 31, 1 or 2
\* digits from 1 to 12, exactly 4 digits
IsDayText(s) ==
    /\ Len(s) \in {1, 2}
    /\ \A i \in DOMAIN s : IsDigit(s[i])
    /\ Number(s) \in 1..31

IsMonthText(s) ==
    /\ Len(s) \in {1, 2}
    /\ \A i \in DOMAIN s : IsDigit(s[i])
    /\ Number(s) \in 1..12

IsYearText(s) == Len(s) = 4 /\ \A i \in DOMAIN s : IsDigit(s[i])

IsLeap(year) == year % 4 = 0 /\ (year % 100 # 0 \/ year % 400 = 0)

DaysIn(month, year) ==
    IF month = 2 THEN (IF IsLeap(year) THEN 29 ELSE 28)
    ELSE IF month \in {4, 6, 9, 11} THEN 30
    ELSE 31

\* "%04d" / "%02d"
Padded(n, width) ==
    [i \in 1..width |-> Digits[((n \div (10 ^ (width - i))) % 10) + 1]]

\* datetime.strptime(text, '%d/%m/%Y') raises ValueError
Unparsable(text) ==
    LET parts == SplitOn(text, "/")
    IN  \/ Len(parts) # 3
        \/ ~IsDayText(parts[1])
        \/ ~IsMonthText(parts[2])
        \/ ~IsYearText(parts[3])
        \/ Number(parts[3]) < 1
        \/ Number(parts[1]) > DaysIn(Number(parts[2]), Number(parts[3]))

\* date_obj.strftime('%Y%m%d'); the modelled dates have years from 1000 on,
\* which every C library renders with four digits
FormatDate(text) ==
    LET parts == SplitOn(text, "/")
    IN  Padded(Number(parts[3]), 4) \o Padded(Number(parts[2]), 2)
           \o Padded(Number(parts[1]), 2)

convert_archive_date(archive_date) ==
    IF archive_date = <<>> \/ Strip(archive_date) = <<>> THEN <<>>
    ELSE IF Unparsable(Strip(archive_date)) THEN <<>>
    ELSE FormatDate(Strip(archive_date))

(***************************************************************************)
(* convert_archive_to_standard_format                                      *)
(***************************************************************************)
\* "if len(archive_fields) < 18: return None"
LegacyMinimumFields == 18

\* "current_fields = [''] * 24"
CanonicalFields == 24

None == <<>>

Some(l) == <<l>>

\* archive_fields[i] if len(archive_fields) > i else ''   (i counted from 0)
ArchiveField(archive_fields, i) ==
    IF Len(archive_fields) > i THEN archive_fields[i + 1] ELSE <<>>

\* the price left out of the validation
LocalityPresent(current_fields) == Strip(current_fields[10]) # <<>>

\* "if not current_fields[9].strip() or not current_fields[15].strip()" is false
RequiredFieldsPresent(current_fields) ==
    Strip(current_fields[10]) # <<>> /\ Strip(current_fields[16]) # <<>>

\* PurchasePrice taken from the field after the legacy price
CurrentFieldsPriceShifted(archive_fields) ==
    [i \in 1..CanonicalFields |->
        CASE i = 1  -> <<"B">>
          [] i = 2  -> ArchiveField(archive_fields, 1)
          [] i = 3  -> ArchiveField(archive_fields, 4)
          [] i = 7  -> ArchiveField(archive_fields, 5)
          [] i = 8  -> ArchiveField(archive_fields, 6)
          [] i = 9  -> ArchiveField(archive_fields, 7)
          [] i = 10 -> ArchiveField(archive_fields, 8)
          [] i = 11 -> ArchiveField(archive_fields, 9)
          [] i = 12 -> ArchiveField(archive_fields, 13)
          [] i = 13 -> ArchiveField(archive_fields, 14)
          [] i = 14 -> convert_archive_date(ArchiveField(archive_fields, 10))
          [] i = 15 -> convert_archive_date(ArchiveField(archive_fields, 10))
          [] i = 16 -> ArchiveField(archive_fields, 12)
          [] i = 17 -> ArchiveField(archive_fields, 17)
          [] i = 18 -> <<"R">>
          [] i = 19 -> <<"RESIDENCE">>
          [] OTHER  -> <<>>]

\* the 24 fields built from the legacy ones; field i of the source is
\* element i + 1 here
CurrentFields(archive_fields) ==
    [i \in 1..CanonicalFields |->
        CASE i = 1  -> <<"B">>
          [] i = 2  -> ArchiveField(archive_fields, 1)
          [] i = 3  -> ArchiveField(archive_fields, 4)
          [] i = 7  -> ArchiveField(archive_fields, 5)
          [] i = 8  -> ArchiveField(archive_fields, 6)
          [] i = 9  -> ArchiveField(archive_fields, 7)
          [] i = 10 -> ArchiveField(archive_fields, 8)
          [] i = 11 -> ArchiveField(archive_fields, 9)
          [] i = 12 -> ArchiveField(archive_fields, 13)
          [] i = 13 -> ArchiveField(archive_fields, 14)
          [] i = 14 -> convert_archive_date(ArchiveField(archive_fields, 10))
          [] i = 15 -> convert_archive_date(ArchiveField(archive_fields, 10))
          [] i = 16 -> ArchiveField(archive_fields, 11)
          [] i = 17 -> ArchiveField(archive_fields, 17)
          [] i = 18 -> <<"R">>
          [] i = 19 -> <<"RESIDENCE">>
          [] OTHER  -> <<>>]

convert_archive_to_standard_format(l) ==
    IF ~StartsWithB(l) THEN None
    ELSE LET archive_fields == SplitOn(l, ";")
         IN  IF Len(archive_fields) < LegacyMinimumFields THEN None
             ELSE LET current_fields == CurrentFields(archive_fields)
                  IN  IF ~RequiredFieldsPresent(current_fields) THEN None
                      ELSE Some(JoinWith(current_fields, ";"))

(***************************************************************************)
(* The lines of a legacy file handed to convert_archive_to_standard_format *)
(***************************************************************************)
\* the largest number of fields of a generated legacy line
MaxFields == 20

\* dates as they stand in legacy field 10, each with what the interpreter's
\* strptime/strftime make of it
DateCases ==
    {
     [text |-> <<"1", "3", "/", "0", "5", "/", "1", "9", "9", "0">>, result |-> <<"1", "9", "9", "0", "0", "5", "1", "3">>],
     [text |-> <<>>, result |-> <<>>],
     [text |-> <<" ">>, result |-> <<>>],
     [text |-> <<" ", "1", "3", "/", "0", "5", "/", "1", "9", "9", "0", " ">>, result |-> <<"1", "9", "9", "0", "0", "5", "1", "3">>],
     [text |-> <<"1", "/", "1", "/", "2", "0", "0", "1">>, result |-> <<"2", "0", "0", "1", "0", "1", "0", "1">>],
     [text |-> <<"2", "9", "/", "0", "2", "/", "1", "9", "9", "0">>, result |-> <<>>],
     [text |-> <<"2", "9", "/", "0", "2", "/", "2", "0", "0", "0">>, result |-> <<"2", "0", "0", "0", "0", "2", "2", "9">>],
     [text |-> <<"2", "9", "/", "0", "2", "/", "1", "9", "0", "0">>, result |-> <<>>],
     [text |-> <<"3", "1", "/", "0", "4", "/", "1", "9", "9", "0">>, result |-> <<>>],
     [text |-> <<"0", "0", "/", "0", "1", "/", "1", "9", "9", "0">>, result |-> <<>>],
     [text |-> <<"1", "3", "/", "1", "3", "/", "1", "9", "9", "0">>, result |-> <<>>],
     [text |-> <<"1", "3", "/", "0", "5", "/", "9", "0">>, result |-> <<>>],
     [text |-> <<"1", "9", "9", "0", "-", "0", "5", "-", "1", "3">>, result |-> <<>>],
     [text |-> <<"1", "3", "/", "0", "5", "/", "1", "9", "9", "0", "/", "1">>, result |-> <<>>],
     [text |-> <<"1", "3", "/", "0", "5", "/", "0", "0", "0", "0">>, result |-> <<>>],
     [text |-> <<"1", "3", " ", "/", "0", "5", "/", "1", "9", "9", "0">>, result |-> <<>>]
    }

LocalityTexts == {<<"SUBURB">>, <<>>, <<" ">>, <<" ", "SUBURB", " ">>}

PriceTexts == {<<"150000">>, <<>>, <<" ">>}

RecordTypes == {<<"B">>, <<"C">>, <<" ", "B">>}

\* the legacy layout: record type, district, source, valuation number,
\* property id, unit, house number, street, suburb, postcode, contract date,
\* price, land description, area, area type, dimensions, component code,
\* zone, vendor, purchaser
LegacyFields(record_type, locality, date, price) ==
    <<record_type, <<"01">>, <<"X">>, <<"Y">>, <<"ID">>, <<"UNIT">>, <<"HOUSE">>,
      <<"STREET">>, locality, <<"2000">>, date, price, <<"DESC">>, <<"AREA">>,
      <<"TYPE">>, <<"DIM">>, <<"COMP">>, <<"ZONE">>, <<"VENDOR">>, <<"PURCHASER">>>>

\* a legacy line of n fields
LegacyLine(record_type, locality, date, price, n) ==
    LET fields == LegacyFields(record_type, locality, date, price)
    IN  JoinWith([i \in 1..n |-> IF i <= Len(fields) THEN fields[i] ELSE <<"EXTRA">>],
                 ";")

LegacyLines ==
    {LegacyLine(t, l, d.text, p, n) :
        t \in RecordTypes, l \in LocalityTexts, d \in DateCases, p \in PriceTexts,
        n \in (LegacyMinimumFields - 2)..MaxFields}

\* a line with the date and the price two fields further on, in fields 14 and
\* 15, as it stands alone and with a further field after it
ShiftedFields ==
    <<<<"B">>, <<"01">>, <<"X">>, <<"Y">>, <<"ID">>, <<"UNIT">>, <<"HOUSE">>,
      <<"STREET">>, <<"SUBURB">>, <<"2000">>, <<>>, <<>>, <<"AREA">>, <<"TYPE">>,
      <<"1", "3", "/", "0", "5", "/", "1", "9", "9", "0">>, <<"150000">>,
      <<>>, <<>>, <<>>, <<"ZONE">>>>

ShiftedLines ==
    {JoinWith(ShiftedFields, ";"), JoinWith(ShiftedFields \o <<<<"...">>>>, ";")}

\* the same record with the date and the price in legacy fields 10 and 11
AlignedFields ==
    <<<<"B">>, <<"01">>, <<"X">>, <<"Y">>, <<"ID">>, <<"UNIT">>, <<"HOUSE">>,
      <<"STREET">>, <<"SUBURB">>, <<"2000">>,
      <<"1", "3", "/", "0", "5", "/", "1", "9", "9", "0">>, <<"150000">>,
      <<"AREA">>, <<"TYPE">>, <<>>, <<>>, <<>>, <<"ZONE">>>>

AlignedLines ==
    {JoinWith(AlignedFields, ";"), JoinWith(AlignedFields \o <<<<"...">>>>, ";")}

\* main() and process_dat_files are not running
ExtractIdle ==
    /\ files = NoFiles
    /\ dirs = {}
    /\ max_depth = DefaultMaxDepth
    /\ mpc = "idle"
    /\ archive_files = <<>>
    /\ successful_extractions = 0
    /\ failed_extractions = 0
    /\ pbar = 0
    /\ stack = <<>>
    /\ log = <<>>

InitConvert ==
    /\ ExtractIdle
    /\ LocalityIdle
    /\ cpc = "call"
    /\ line \in LegacyLines \cup ShiftedLines \cup AlignedLines
    /\ converted_line = None

\* converted_line = convert_archive_to_standard_format(line)
Convert ==
    /\ cpc = "call"
    /\ converted_line' = convert_archive_to_standard_format(line)
    /\ cpc' = "returned"
    /\ UNCHANGED <<line, evars, lvars>>

NextConvert == Convert

SpecConvert == InitConvert /\ [][NextConvert]_vars

(***************************************************************************)
(* Properties of convert_archive_to_standard_format                        *)
(***************************************************************************)
\* canonical field i (counted from 0) of a returned line
Canonical(returned, i) == SplitOn(returned[1], ";")[i + 1]

\* legacy field i (counted from 0) of the line given
Legacy(i) == SplitOn(line, ";")[i + 1]

C9_Mapped ==
    /\ converted_line # None
    /\ Canonical(converted_line, 9) = <<"SUBURB">>
    /\ Canonical(converted_line, 13) = <<"1", "9", "9", "0", "0", "5", "1", "3">>
    /\ Canonical(converted_line, 14) = <<"1", "9", "9", "0", "0", "5", "1", "3">>
    /\ Canonical(converted_line, 15) = <<"150000">>
    /\ Canonical(converted_line, 17) = <<"R">>
    /\ Canonical(converted_line, 18) = <<"RESIDENCE">>

C10_Accepted ==
    /\ StartsWithB(line)
    /\ Len(SplitOn(line, ";")) >= 18
    /\ Strip(Legacy(8)) # <<>>
    /\ Strip(Legacy(11)) # <<>>

C10_Copied ==
    /\ Canonical(converted_line, 1) = Legacy(1)
    /\ Canonical(converted_line, 2) = Legacy(4)
    /\ Canonical(converted_line, 6) = Legacy(5)
    /\ Canonical(converted_line, 7) = Legacy(6)
    /\ Canonical(converted_line, 8) = Legacy(7)
    /\ Canonical(converted_line, 9) = Legacy(8)
    /\ Canonical(converted_line, 10) = Legacy(9)
    /\ Canonical(converted_line, 11) = Legacy(13)
    /\ Canonical(converted_line, 12) = Legacy(14)
    /\ Canonical(converted_line, 15) = Legacy(11)
    /\ Canonical(converted_line, 16) = Legacy(17)

C10_Dated ==
    /\ Canonical(converted_line, 13) = convert_archive_date(Legacy(10))
    /\ Canonical(converted_line, 14) = convert_archive_date(Legacy(10))
    /\ \A d \in DateCases :
          Legacy(10) = d.text => Canonical(converted_line, 13) = d.result

MaxFiles == 2

\* "if len(fields) >= 10"
MinimumFields == 10

\* the current layout, with a locality and a price
SaleFields(locality, price) ==
    <<<<"B">>, <<"001">>, <<"PID">>, <<"1">>, <<"DOWNLOADED">>, <<"NAME">>, <<"UNIT">>,
      <<"HOUSE">>, <<"STREET">>, locality, <<"2000">>, <<"AREA">>, <<"M">>,
      <<"20200101">>, <<"20200201">>, price, <<"ZONE">>, <<"R">>, <<"RESIDENCE">>,
      <<>>, <<>>, <<>>, <<>>, <<"DEALING">>>>

\* a current line cut to its first n fields
SaleLine(locality, price, n) == JoinWith(SubSeq(SaleFields(locality, price), 1, n), ";")

GoodDate == <<"1", "3", "/", "0", "5", "/", "1", "9", "9", "0">>

BadDate == <<"1", "9", "9", "0", "-", "0", "5", "-", "1", "3">>

HeaderLine == JoinWith(<<<<"A">>, <<"RTSALEDATA">>, <<"001">>, <<"20200101">>>>, ";")

FileA ==
    [name  |-> <<"001_SALES_DATA", ".DAT">>,
     lines |-> <<HeaderLine,
                 SaleLine(<<"PARRAMATTA">>, <<"150000">>, CanonicalFields),
                 <<" ">>,
                 SaleLine(<<"ST", ".", " ", "LEONARDS">>, <<>>, CanonicalFields)>>]

FileB ==
    [name  |-> <<"002_SALES_DATA", ".DAT">>,
     lines |-> <<SaleLine(<<" ", "PARRAMATTA", " ">>, <<"150000">>, MinimumFields + 2),
                 SaleLine(<<"ST", " ", "LEONARDS">>, <<"150000">>, CanonicalFields),
                 SaleLine(<<" ">>, <<"150000">>, CanonicalFields),
                 SaleLine(<<"PARRAMATTA">>, <<"150000">>, MinimumFields - 1)>>]

FileC ==
    [name  |-> <<"ARCHIVE_SALES_", "1990", ".DAT">>,
     lines |-> <<LegacyLine(<<"B">>, <<"PARRAMATTA">>, GoodDate, <<"150000">>, MaxFields),
                 LegacyLine(<<"B">>, <<"SUBURB">>, BadDate, <<"150000">>, LegacyMinimumFields),
                 LegacyLine(<<"B">>, <<"PARRAMATTA">>, GoodDate, <<" ">>, MaxFields),
                 LegacyLine(<<"B">>, <<"PARRAMATTA">>, GoodDate, <<"150000">>,
                            LegacyMinimumFields - 1)>>]

FileD ==
    [name  |-> <<"003_SALES_DATA", ".DAT">>,
     lines |-> <<<<" ">> \o SaleLine(<<".">>, <<"150000">>, CanonicalFields) \o <<" ">>,
                 LegacyLine(<<"B">>, <<"SUBURB">>, GoodDate, <<"150000">>, MaxFields)>>]

FileE ==
    [name  |-> <<"ARCHIVE_SALES_", "1991", ".DAT">>,
     lines |-> <<HeaderLine,
                 SaleLine(<<"ST", " ", "LEONARDS">>, <<"150000">>, CanonicalFields),
                 <<>>>>]

FileF ==
    [name  |-> <<"notes", ".txt">>,
     lines |-> <<SaleLine(<<"PARRAMATTA">>, <<"150000">>, CanonicalFields)>>]

FilePool == {FileA, FileB, FileC, FileD, FileE, FileF}

ExtractedTrees == {t \in SUBSET FilePool : Cardinality(t) <= MaxFiles}

\* what an earlier run left in the localities folder
StaleOutputs == <<"PARRAMATTA", ".DAT">> :> <<SaleLine(<<"PARRAMATTA">>, <<"1">>, CanonicalFields)>>

(***************************************************************************)
(* process_dat_files                                                       *)
(***************************************************************************)
\* glob "**/*.DAT"
IsDatName(filename) == Last(filename) = ".DAT"

\* every file taken for a current one
IsNeverArchive(filename) == FALSE

\* filename.startswith('ARCHIVE_SALES_')
IsArchive(filename) == filename[1] = "ARCHIVE_SALES_"

\* the orders glob can list the matching files in
GlobOrders(tree) ==
    LET matching == {f \in tree : IsDatName(f.name)}
    IN  {o \in [1..Cardinality(matching) -> matching] :
            \A i, j \in DOMAIN o : i # j => o[i] # o[j]}

IsRegularFile(f) == ~IsArchive(f.name)

IsArchiveFile(f) == IsArchive(f.name)

\* the line after "line.strip()" and the conversion of a legacy file's line:
\* None when the line is skipped by a "continue"
Normalized(filename, raw) ==
    LET l == Strip(raw)
    IN  IF l = <<>> THEN None
        ELSE IF IsArchive(filename) THEN convert_archive_to_standard_format(l)
        ELSE Some(l)

\* the three nested ifs that lead to the append
IsSaleRecord(l) ==
    /\ StartsWithB(l)
    /\ Len(SplitOn(l, ";")) >= MinimumFields
    /\ Strip(SplitOn(l, ";")[10]) # <<>>

\* the field taken as it stands
LocalityUntrimmed(l) == SplitOn(l, ";")[10]

\* locality = fields[9].strip()
LocalityOf(l) == Strip(SplitOn(l, ";")[10])

\* locality_records[locality].append(line)
Append_(records, locality, l) ==
    IF locality \in DOMAIN records
    THEN [records EXCEPT ![locality] = Append(@, l)]
    ELSE (locality :> <<l>>) @@ records

\* c.isalnum(): the tokens that are not letters or digits
NotAlnum == {" ", "\t", "\r", "\n", ";", "/", ".", "...", "-", "_"}

Kept(c) == c \notin NotAlnum \/ c \in {" ", "-", "_"}

\* "".join(c for c in locality if ...).strip().replace(' ', '_')
safe_locality_name(locality) ==
    LET kept == Strip(SelectSeq(locality, Kept))
    IN  [i \in DOMAIN kept |-> IF kept[i] = " " THEN "_" ELSE kept[i]]

\* f"{safe_locality_name}.DAT" in the localities folder
OutputFile(locality) == safe_locality_name(locality) \o <<".DAT">>

InitLocality ==
    /\ ExtractIdle
    /\ ConvertIdle
    /\ lpc = "start"
    /\ extracted_files \in ExtractedTrees
    /\ output_files \in {<<>>, StaleOutputs}
    /\ all_dat_files = <<>>
    /\ all_files_to_process = <<>>
    /\ file_no = 0
    /\ line_no = 0
    /\ locality_records = <<>>
    /\ locality_order = <<>>
    /\ locality_no = 0
    /\ processed_files = 0
    /\ error_files = 0
    /\ total_records = 0
    /\ accepted = <<>>
    /\ write_errors = {}

\* the .DAT files are listed and put in reading order, the regular ones first
Glob ==
    /\ lpc = "start"
    /\ \E o \in GlobOrders(extracted_files) :
          /\ all_dat_files' = o
          /\ all_files_to_process' =
                SelectSeq(o, IsRegularFile) \o SelectSeq(o, IsArchiveFile)
    /\ file_no' = 1
    /\ line_no' = 1
    /\ lpc' = "read"
    /\ UNCHANGED <<extracted_files, locality_records, locality_order, locality_no,
                   output_files, processed_files, error_files, total_records,
                   accepted, write_errors, evars, cvars>>

\* open(dat_file) raises: the file is counted as an error and left out
OpenFails ==
    /\ lpc = "read"
    /\ file_no <= Len(all_files_to_process)
    /\ line_no = 1
    /\ error_files' = error_files + 1
    /\ file_no' = file_no + 1
    /\ UNCHANGED <<extracted_files, all_dat_files, lpc, all_files_to_process, line_no,
                   locality_records, locality_order, locality_no, output_files,
                   processed_files, total_records, accepted, write_errors,
                   evars, cvars>>

\* one turn of "for line in file"
ReadLine ==
    /\ lpc = "read"
    /\ file_no <= Len(all_files_to_process)
    /\ line_no <= Len(all_files_to_process[file_no].lines)
    /\ LET dat_file   == all_files_to_process[file_no]
           normalized == Normalized(dat_file.name, dat_file.lines[line_no])
       IN  IF normalized # None /\ IsSaleRecord(normalized[1])
           THEN LET l        == normalized[1]
                    locality == LocalityOf(l)
                IN  /\ locality_records' = Append_(locality_records, locality, l)
                    /\ locality_order' =
                          IF locality \in DOMAIN locality_records THEN locality_order
                          ELSE Append(locality_order, locality)
                    /\ total_records' = total_records + 1
                    /\ accepted' = Append(accepted,
                          [file |-> dat_file.name, locality |-> locality, record |-> l])
           ELSE UNCHANGED <<locality_records, locality_order, total_records, accepted>>
    /\ line_no' = line_no + 1
    /\ UNCHANGED <<extracted_files, all_dat_files, lpc, all_files_to_process, file_no,
                   locality_no, output_files, processed_files, error_files,
                   write_errors, evars, cvars>>

\* the file is exhausted: "processed_files += 1"
EndOfFile ==
    /\ lpc = "read"
    /\ file_no <= Len(all_files_to_process)
    /\ line_no > Len(all_files_to_process[file_no].lines)
    /\ processed_files' = processed_files + 1
    /\ file_no' = file_no + 1
    /\ line_no' = 1
    /\ UNCHANGED <<extracted_files, all_dat_files, lpc, all_files_to_process,
                   locality_records, locality_order, locality_no, output_files,
                   error_files, total_records, accepted, write_errors, evars, cvars>>

\* every file has been read: on to the writing loop
StartWriting ==
    /\ lpc = "read"
    /\ file_no > Len(all_files_to_process)
    /\ lpc' = "write"
    /\ locality_no' = 1
    /\ UNCHANGED <<extracted_files, all_dat_files, all_files_to_process, file_no, line_no,
                   locality_records, locality_order, output_files, processed_files,
                   error_files, total_records, accepted, write_errors, evars, cvars>>

\* one turn of "for locality, records in locality_records.items()": the file
\* is opened for writing and the records are written; either may raise, the
\* second leaving the lines written before
WriteLocality ==
    /\ lpc = "write"
    /\ locality_no <= Len(locality_order)
    /\ LET locality    == locality_order[locality_no]
           records     == locality_records[locality]
           output_file == OutputFile(locality)
       IN  IF safe_locality_name(locality) = <<>>
           THEN UNCHANGED <<output_files, write_errors>>
           ELSE \/ /\ output_files' = (output_file :> records) @@ output_files
                   /\ UNCHANGED write_errors
                \/ /\ write_errors' = write_errors \cup {output_file}
                   /\ UNCHANGED output_files
                \/ /\ write_errors' = write_errors \cup {output_file}
                   /\ \E n \in 0..(Len(records) - 1) :
                         output_files' =
                            (output_file :> SubSeq(records, 1, n)) @@ output_files
    /\ locality_no' = locality_no + 1
    /\ UNCHANGED <<extracted_files, all_dat_files, lpc, all_files_to_process, file_no,
                   line_no, locality_records, locality_order, processed_files,
                   error_files, total_records, accepted, evars, cvars>>

\* "Processing complete!"
Complete ==
    /\ lpc = "write"
    /\ locality_no > Len(locality_order)
    /\ lpc' = "done"
    /\ UNCHANGED <<extracted_files, all_dat_files, all_files_to_process, file_no, line_no,
                   locality_records, locality_order, locality_no, output_files,
                   processed_files, error_files, total_records, accepted,
                   write_errors, evars, cvars>>

NextLocality ==
    \/ Glob
    \/ OpenFails
    \/ ReadLine
    \/ EndOfFile
    \/ StartWriting
    \/ WriteLocality
    \/ Complete

SpecLocality == InitLocality /\ [][NextLocality]_vars

(***************************************************************************)
(* Properties of process_dat_files                                         *)
(***************************************************************************)
\* the lines appended under a locality, in the order they were appended
AcceptedUnder(locality) ==
    LET Under_(a) == a.locality = locality
        under     == SelectSeq(accepted, Under_)
    IN  [i \in DOMAIN under |-> under[i].record]

\* the buckets hold the appended lines and nothing else
BucketsAreAccepted ==
    /\ DOMAIN locality_records = {accepted[i].locality : i \in DOMAIN accepted}
    /\ \A locality \in DOMAIN locality_records :
          locality_records[locality] = AcceptedUnder(locality)

FromLegacyFile(a) == a.file[1] = "ARCHIVE_SALES_"

FieldsOf(l) == SplitOn(l, ";")

\* C7 as stated: every line retained in a bucket, from a current or a legacy
\* file, has exactly 24 fields, field 0 "B", a non-empty field 9 and a
\* non-empty field 15.
C7_RetainedCanonical ==
    \A locality \in DOMAIN locality_records :
       \A i \in DOMAIN locality_records[locality] :
          LET fields == FieldsOf(locality_records[locality][i])
          IN  /\ Len(fields) = 24
              /\ fields[1] = <<"B">>
              /\ fields[10] # <<>>
              /\ fields[16] # <<>>

\* C7: every line retained in a bucket starts with "B;", has at least 10
\* fields and a field 9 that is not blank; a line retained from a legacy file
\* has, in addition, exactly 24 fields and a field 15 that is not blank.  A
\* line of a current file is retained whatever its number of fields from 10
\* on and whatever its field 15.
C7_RetainedWellFormed ==
    /\ BucketsAreAccepted
    /\ \A i \in DOMAIN accepted :
          LET fields == FieldsOf(accepted[i].record)
          IN  /\ fields[1] = <<"B">>
              /\ Len(fields) >= 10
              /\ Strip(fields[10]) # <<>>
              /\ FromLegacyFile(accepted[i]) =>
                    /\ Len(fields) = 24
                    /\ Strip(fields[16]) # <<>>

C7_Witness ==
    /\ lpc = "done"
    /\ \E i \in DOMAIN accepted : FromLegacyFile(accepted[i])
    /\ \E i \in DOMAIN accepted :
          /\ ~FromLegacyFile(accepted[i])
          /\ Len(FieldsOf(accepted[i].record)) # 24

\* C8 as stated: after the flush with no write failure, each bucket whose
\* sanitized key is not empty has its own output file <sanitized-key>.DAT
\* holding exactly the bucket's lines in insertion order, also when two keys
\* sanitize to the same file name; the records of one locality from different
\* files are together in first-seen order.
C8_OneFilePerBucket ==
    (lpc = "done" /\ write_errors = {}) =>
        /\ BucketsAreAccepted
        /\ \A locality \in DOMAIN locality_records :
              safe_locality_name(locality) # <<>> =>
                 /\ OutputFile(locality) \in DOMAIN output_files
                 /\ output_files[OutputFile(locality)] = locality_records[locality]

\* the buckets a line is stored in
BucketsHolding(l) ==
    {k \in DOMAIN locality_records :
        \E j \in DOMAIN locality_records[k] : locality_records[k][j] = l}

\* the lines read so far that start with "B;", have 10 fields or more and a
\* field 9 that is empty or blank
BlankLocalityRead ==
    LET LinesRead(f) ==
            IF f < file_no THEN Len(all_files_to_process[f].lines)
            ELSE IF f = file_no THEN line_no - 1
            ELSE 0
        read == UNION {{Strip(all_files_to_process[f].lines[n]) : n \in 1..LinesRead(f)} :
                          f \in 1..Len(all_files_to_process)}
    IN  {l \in read :
            /\ StartsWithB(l)
            /\ Len(FieldsOf(l)) >= 10
            /\ Strip(FieldsOf(l)[10]) = <<>>}

\* C11: at every point of the run of process_dat_files no bucket key is empty
\* or has whitespace at either end, every line stored under a key k has k as
\* its field 9 once trimmed, and every accepted line has been appended to
\* exactly one bucket: a record with an empty or blank locality is in no
\* bucket and no record is in two buckets.
C11_BucketsPartition ==
    /\ \A k \in DOMAIN locality_records :
          /\ k # <<>>
          /\ k[1] \notin Whitespace
          /\ k[Len(k)] \notin Whitespace
          /\ \A j \in DOMAIN locality_records[k] :
                Strip(FieldsOf(locality_records[k][j])[10]) = k
    /\ BucketsAreAccepted
    /\ Len(accepted) = total_records
    /\ \A i \in DOMAIN accepted :
          BucketsHolding(accepted[i].record) = {accepted[i].locality}
    /\ \A l \in BlankLocalityRead : BucketsHolding(l) = {}

\* a blank locality has been read and dropped, and a line whose field 9 has
\* spaces around it is stored under the trimmed key, beside another bucket
C11_Witness ==
    /\ lpc = "done"
    /\ BlankLocalityRead # {}
    /\ Cardinality(DOMAIN locality_records) >= 2
    /\ \E i \in DOMAIN accepted :
          FieldsOf(accepted[i].record)[10] # accepted[i].locality

(***************************************************************************)
(* Properties of the extraction run: destination folders and pick-ups      *)
(***************************************************************************)
\* the folders made for top-level archives, each with its archive
TopFolders == {i \in EventsOf({"mkdir"}) : log[i].depth = 0}

\* C12 as stated: every top-level archive is extracted into a subfolder of
\* the extraction folder that is its own: two distinct top-level archives,
\* also with one stem in different input folders or with different extensions,
\* never have the same destination folder.
C12_OwnSubfolder ==
    /\ \A i \in TopFolders :
          /\ Len(log[i].to) = Len(ExtractedPath) + 1
          /\ Parent(log[i].to) = ExtractedPath
    /\ \A i, j \in TopFolders :
          log[i].path # log[j].path => log[i].to # log[j].to

\* the calls of extract_single_archive made for nested archives
NestedCalls == {i \in EventsOf({"call"}) : log[i].depth >= 1}

\* C13 as stated: within one run each nested archive file is the subject of
\* at most one extraction attempt, at a single depth: an archive listed by an
\* outer scan is never also picked up by the scan of a deeper recursive call.
C13_SinglePickUp ==
    \A i, j \in NestedCalls :
       log[i].path = log[j].path => i = j

====
